---- MODULE Spec2Model ----
(***************************************************************************)
(* Model of contrib/scripts/orphan-clean-up/orphan_cleanup.py: one run of  *)
(* main() against a catalog service whose answers are inputs.              *)
(*                                                                         *)
(* JSON values are records [t, v]: t is the JSON type, v the payload.  A   *)
(* JSON object is a function from its present keys to JSON values, so      *)
(* "key absent" and "key present with null" are different inputs.          *)
(***************************************************************************)
EXTENDS Integers, Sequences, FiniteSets, TLC

\* Longest fetch result the main specification enumerates.
MaxEntities == 3

-----------------------------------------------------------------------------
(* JSON values and the Python operations the script applies to them *)

Null == [t |-> "null", v |-> ""]
JStr(s) == [t |-> "str", v |-> s]
JList(items) == [t |-> "list", v |-> items]
JObj(fields) == [t |-> "obj", v |-> fields]
EmptyDict == [k \in {} |-> Null]

\* Python truth value of a JSON value: None, "", [] and {} are falsy.
Truthy(val) ==
    CASE val.t = "null" -> FALSE
      [] val.t = "str"  -> val.v # ""
      [] val.t = "list" -> Len(val.v) > 0
      [] val.t = "obj"  -> DOMAIN val.v # {}

\* dict.get(key, default): the default only when the key is absent.
Get(dict, key, default) ==
    IF key \in DOMAIN dict.v THEN dict.v[key] ELSE default

\* a or b
Or(a, b) == IF Truthy(a) THEN a ELSE b

\* str(x) for the values that reach it: a string is itself, None is "None".
Str(val) == IF val.t = "str" THEN val.v ELSE "None"

\* x.get(...) raises AttributeError unless x is a dict.
HasGet(val) == val.t = "obj"

Unknown == JStr("<unknown>")

-----------------------------------------------------------------------------
(* Strings: str.lower() and the code-point order of the strings in use *)

Lower(s) ==
    CASE s = "Beta"      -> "beta"
      [] s = "Component" -> "component"
      [] s = "API"       -> "api"
      [] s = "None"      -> "none"
      [] OTHER           -> s

\* Position of a lower-cased string in code-point order ("<" sorts first).
StrRank(s) ==
    CASE s = "<unknown>" -> 0
      [] s = "a"         -> 1
      [] s = "alpha"     -> 2
      [] s = "api"       -> 3
      [] s = "b"         -> 4
      [] s = "beta"      -> 5
      [] s = "component" -> 6
      [] s = "none"      -> 7
      [] s = "svc1"      -> 8

\* Python's order on key tuples of equal length: lexicographic.
RECURSIVE KeyLess(_, _)
KeyLess(k1, k2) ==
    IF k1 = <<>> THEN FALSE
    ELSE IF Head(k1) # Head(k2) THEN Head(k1) < Head(k2)
    ELSE KeyLess(Tail(k1), Tail(k2))

\* sorted(...) on a sequence of [key, val] pairs: stable, ascending by key.
RECURSIVE InsertSorted(_, _)
InsertSorted(x, sorted) ==
    IF sorted = <<>> THEN <<x>>
    ELSE IF KeyLess(x.key, Head(sorted).key) THEN <<x>> \o sorted
    ELSE <<Head(sorted)>> \o InsertSorted(x, Tail(sorted))

RECURSIVE SortPairs(_)
SortPairs(pairs) ==
    IF pairs = <<>> THEN <<>>
    ELSE InsertSorted(pairs[Len(pairs)], SortPairs(SubSeq(pairs, 1, Len(pairs) - 1)))

Vals(pairs) == [i \in 1..Len(pairs) |-> pairs[i].val]

\* sorted(str(tag) for tag in tags_raw)
SortedTags(tags) ==
    Vals(SortPairs([i \in 1..Len(tags) |-> [key |-> <<StrRank(tags[i])>>, val |-> tags[i]]]))

\* ";".join(parts) as a sequence of tokens.
RECURSIVE Join(_)
Join(parts) ==
    IF parts = <<>> THEN <<>>
    ELSE IF Len(parts) = 1 THEN parts
    ELSE <<Head(parts), ";">> \o Join(Tail(parts))

-----------------------------------------------------------------------------
(* build_entity_row *)

\* owner = spec.get("owner") or annotations.get("backstage.io/owner")
\*         or annotations.get("backstage.io/owned-by") or "<unknown>"
OwnerSwapped(spec, annotations) ==
    Or(Get(spec, "owner", Null),
       Or(Get(annotations, "backstage.io/owned-by", Null),
          Or(Get(annotations, "backstage.io/owner", Null), Unknown)))

ResolveOwner(spec, annotations) ==
    Or(Get(spec, "owner", Null),
       Or(Get(annotations, "backstage.io/owner", Null),
          Or(Get(annotations, "backstage.io/owned-by", Null), Unknown)))

ResolveLocation(annotations) ==
    Or(Get(annotations, "backstage.io/origin-location", Null),
       Or(Get(annotations, "backstage.io/managed-by-location", Null),
          Or(Get(annotations, "backstage.io/location", Null), Unknown)))

ResolveTags(metadata) ==
    LET tags_raw == Or(Get(metadata, "tags", Null), JList(<<>>))
    IN  IF tags_raw.t = "list" THEN Join(SortedTags(tags_raw.v))
        ELSE <<Str(tags_raw)>>

build_entity_row(entity) ==
    LET metadata    == Or(Get(entity, "metadata", JObj(EmptyDict)), JObj(EmptyDict))
        spec        == Or(Get(entity, "spec", JObj(EmptyDict)), JObj(EmptyDict))
        annotations == Or(Get(metadata, "annotations", JObj(EmptyDict)), JObj(EmptyDict))
    IN  [name     |-> Str(Get(metadata, "name", Unknown)),
         kind     |-> Str(Get(entity, "kind", Unknown)),
         owner    |-> Str(ResolveOwner(spec, annotations)),
         tags     |-> ResolveTags(metadata),
         location |-> Str(ResolveLocation(annotations))]

-----------------------------------------------------------------------------
(* write_csv *)

DryRunPrefix == "backstage-dry-run-orphaned-entities-deleted"
DeletePrefix == "backstage-orphaned-entities-deleted"
FieldNames == <<"name", "kind", "owner", "tags", "location">>

\* sorted(rows, key=lambda row: (row["name"].lower(), row["kind"].lower()))
SortedRows(rows) ==
    Vals(SortPairs([i \in 1..Len(rows) |->
        [key |-> <<StrRank(Lower(rows[i].name)), StrRank(Lower(rows[i].kind))>>,
         val |-> rows[i]]]))

\* The file write_csv leaves behind (the timestamp of its name is left out).
write_csv(rows, dry_run) ==
    [prefix |-> IF dry_run THEN DryRunPrefix ELSE DeletePrefix,
     header |-> FieldNames,
     rows   |-> SortedRows(rows)]

-----------------------------------------------------------------------------
(* The catalog service: what it answers to the GET and to each DELETE *)

Opt(key, vals) == {EmptyDict} \cup {key :> val : val \in vals}

\* Entities of the main specification: metadata absent, null, or an object
\* with a name and a uid that is absent, empty or set.
MainMetadata ==
    {JObj(n @@ u) : n \in {"name" :> JStr("alpha"), "name" :> JStr("Beta")},
                    u \in Opt("uid", {JStr(""), JStr("u1"), JStr("u2")})}

MainEntities ==
    {JObj(("kind" :> JStr("Component")) @@ m) : m \in Opt("metadata", {Null} \cup MainMetadata)}

SeqsUpTo(S, n) == UNION {[1..k -> S] : k \in 0..n}

\* Answers to the listing GET: transport and HTTP failures, a body that is
\* not JSON, JSON that is not an array, and arrays of entities.
FetchResponses ==
    {[kind |-> k, data |-> Null] : k \in {"http_error", "url_error", "bad_json"}}
    \cup {[kind |-> "json", data |-> JObj("items" :> JList(<<>>))],
          [kind |-> "json", data |-> JStr("oops")]}
    \cup {[kind |-> "json", data |-> JList(es)] : es \in SeqsUpTo(MainEntities, MaxEntities)}

\* Answers to one DELETE: a response with a status, or an exception.
DeleteResponses ==
    {[kind |-> "resp", status |-> 204], [kind |-> "resp", status |-> 300],
     [kind |-> "http_error", status |-> 404], [kind |-> "url_error", status |-> 0]}

\* fetch_orphans: RuntimeError unless the body parses to a JSON array.
fetch_orphans(resp) ==
    IF resp.kind \in {"http_error", "url_error", "bad_json"} THEN [err |-> TRUE, data |-> <<>>]
    ELSE IF resp.data.t # "list" THEN [err |-> TRUE, data |-> <<>>]
    ELSE [err |-> FALSE, data |-> resp.data.v]

\* delete_orphan: RuntimeError on an exception or a status >= 300.
delete_orphan(resp) ==
    IF resp.kind = "resp"
    THEN IF resp.status # 0 /\ resp.status >= 300 THEN "RuntimeError" ELSE "ok"
    ELSE "RuntimeError"

DeleteUrl(base, uid) == base \o <<"/api/catalog/entities/by-uid/", Str(uid)>>

\* str.rstrip("/") on a URL given as a sequence of tokens.
RECURSIVE RStrip(_)
RStrip(url) ==
    IF url # <<>> /\ url[Len(url)] = "/" THEN RStrip(SubSeq(url, 1, Len(url) - 1))
    ELSE url

-----------------------------------------------------------------------------
(* main *)

VARIABLES
    args,       \* parsed command line: base_url, dry_run, csv_output
    response,   \* what the service answers to the listing GET
    pc,         \* position of main: start, loop, return, done, crashed
    base_url,   \* args.base_url.rstrip("/")
    orphans,    \* fetch result
    idx,        \* position of the for loop in orphans
    csv_rows,   \* accumulated report rows
    deletes,    \* DELETE requests issued so far, in order
    files,      \* CSV files written so far
    found,      \* N of the "Found N orphaned entities" line
    stderr,     \* messages printed to standard error
    exitCode    \* <<>> while running, <<code>> once the process has exited

vars == <<args, response, pc, base_url, orphans, idx, csv_rows, deletes, files,
          found, stderr, exitCode>>

ArgSets ==
    [base_url   : {<<"http://cat:7007">>, <<"http://cat:7007", "/">>},
     dry_run    : BOOLEAN,
     csv_output : BOOLEAN]

Init ==
    /\ args \in ArgSets
    /\ response \in FetchResponses
    /\ pc = "start"
    /\ base_url = <<>>
    /\ orphans = <<>>
    /\ idx = 0
    /\ csv_rows = <<>>
    /\ deletes = <<>>
    /\ files = <<>>
    /\ found = <<>>
    /\ stderr = <<>>
    /\ exitCode = <<>>

\* fetch_orphans raised RuntimeError: print it and return 1.
FetchFailExit0 ==
    /\ pc = "start"
    /\ fetch_orphans(response).err
    /\ base_url' = RStrip(args.base_url)
    /\ stderr' = Append(stderr, "fetch_error")
    /\ exitCode' = <<0>>
    /\ pc' = "done"
    /\ UNCHANGED <<args, response, orphans, idx, csv_rows, deletes, files, found>>

FetchFail ==
    /\ pc = "start"
    /\ fetch_orphans(response).err
    /\ base_url' = RStrip(args.base_url)
    /\ stderr' = Append(stderr, "fetch_error")
    /\ exitCode' = <<1>>
    /\ pc' = "done"
    /\ UNCHANGED <<args, response, orphans, idx, csv_rows, deletes, files, found>>

\* The fetch returned an empty array: print the count and return 0.
FetchEmpty ==
    /\ pc = "start"
    /\ ~fetch_orphans(response).err
    /\ fetch_orphans(response).data = <<>>
    /\ base_url' = RStrip(args.base_url)
    /\ orphans' = <<>>
    /\ found' = <<0>>
    /\ exitCode' = <<0>>
    /\ pc' = "done"
    /\ UNCHANGED <<args, response, idx, csv_rows, deletes, files, stderr>>

\* The fetch returned entities: enter the for loop.
FetchOk ==
    /\ pc = "start"
    /\ ~fetch_orphans(response).err
    /\ fetch_orphans(response).data # <<>>
    /\ base_url' = RStrip(args.base_url)
    /\ orphans' = fetch_orphans(response).data
    /\ found' = <<Len(fetch_orphans(response).data)>>
    /\ idx' = 1
    /\ pc' = "loop"
    /\ UNCHANGED <<args, response, csv_rows, deletes, files, stderr, exitCode>>

InLoop == pc = "loop" /\ idx <= Len(orphans)

\* orphan.get("metadata", {})
MetadataOf(orphan) == Get(orphan, "metadata", JObj(EmptyDict))

\* orphan.get("metadata", {}).get("uid")
UidOf(orphan) == Get(MetadataOf(orphan), "uid", Null)

\* orphan.get("metadata", {}).get(...) on a metadata that is not a dict:
\* AttributeError, caught nowhere, the interpreter exits with status 1.
EntityCrash ==
    /\ InLoop
    /\ ~HasGet(MetadataOf(orphans[idx]))
    /\ pc' = "crashed"
    /\ exitCode' = <<1>>
    /\ UNCHANGED <<args, response, base_url, orphans, idx, csv_rows, deletes, files,
                   found, stderr>>

\* if not uid: print the skip message and continue.
SkipMissingUid ==
    /\ InLoop
    /\ HasGet(MetadataOf(orphans[idx]))
    /\ ~Truthy(UidOf(orphans[idx]))
    /\ stderr' = Append(stderr, "skip")
    /\ idx' = idx + 1
    /\ UNCHANGED <<args, response, pc, base_url, orphans, csv_rows, deletes, files,
                   found, exitCode>>

\* row = build_entity_row(orphan) if args.csv_output else None; if row: append
Captured(orphan) ==
    IF args.csv_output THEN Append(csv_rows, build_entity_row(orphan)) ELSE csv_rows

Request(orphan, result) ==
    [url |-> DeleteUrl(base_url, UidOf(orphan)), result |-> result]

\* Dry run: print the intent, capture the row, never call delete_orphan.
DryRunEntityDeleting ==
    /\ InLoop
    /\ HasGet(MetadataOf(orphans[idx]))
    /\ Truthy(UidOf(orphans[idx]))
    /\ args.dry_run
    /\ deletes' = Append(deletes, Request(orphans[idx], "ok"))
    /\ csv_rows' = Captured(orphans[idx])
    /\ idx' = idx + 1
    /\ UNCHANGED <<args, response, pc, base_url, orphans, files, found, stderr, exitCode>>

DryRunEntity ==
    /\ InLoop
    /\ HasGet(MetadataOf(orphans[idx]))
    /\ Truthy(UidOf(orphans[idx]))
    /\ args.dry_run
    /\ csv_rows' = Captured(orphans[idx])
    /\ idx' = idx + 1
    /\ UNCHANGED <<args, response, pc, base_url, orphans, deletes, files, found,
                   stderr, exitCode>>

\* delete_orphan returned: capture the row.
DeleteOk ==
    /\ InLoop
    /\ HasGet(MetadataOf(orphans[idx]))
    /\ Truthy(UidOf(orphans[idx]))
    /\ ~args.dry_run
    /\ \E resp \in DeleteResponses :
          /\ delete_orphan(resp) = "ok"
          /\ deletes' = Append(deletes, Request(orphans[idx], "ok"))
    /\ csv_rows' = Captured(orphans[idx])
    /\ idx' = idx + 1
    /\ UNCHANGED <<args, response, pc, base_url, orphans, files, found, stderr, exitCode>>

\* delete_orphan raised RuntimeError: print it and continue, no row.
DeleteFailCapturing ==
    /\ InLoop
    /\ HasGet(MetadataOf(orphans[idx]))
    /\ Truthy(UidOf(orphans[idx]))
    /\ ~args.dry_run
    /\ \E resp \in DeleteResponses :
          /\ delete_orphan(resp) = "RuntimeError"
          /\ deletes' = Append(deletes, Request(orphans[idx], "RuntimeError"))
    /\ stderr' = Append(stderr, "delete_error")
    /\ csv_rows' = Captured(orphans[idx])
    /\ idx' = idx + 1
    /\ UNCHANGED <<args, response, pc, base_url, orphans, files, found, exitCode>>

DeleteFail ==
    /\ InLoop
    /\ HasGet(MetadataOf(orphans[idx]))
    /\ Truthy(UidOf(orphans[idx]))
    /\ ~args.dry_run
    /\ \E resp \in DeleteResponses :
          /\ delete_orphan(resp) = "RuntimeError"
          /\ deletes' = Append(deletes, Request(orphans[idx], "RuntimeError"))
    /\ stderr' = Append(stderr, "delete_error")
    /\ idx' = idx + 1
    /\ UNCHANGED <<args, response, pc, base_url, orphans, csv_rows, files, found, exitCode>>

LoopDone == pc = "loop" /\ idx > Len(orphans)

\* After the loop, if args.csv_output: write the report.
WriteCsv ==
    /\ LoopDone
    /\ args.csv_output
    /\ files' = Append(files, write_csv(csv_rows, args.dry_run))
    /\ pc' = "return"
    /\ UNCHANGED <<args, response, base_url, orphans, idx, csv_rows, deletes, found,
                   stderr, exitCode>>

\* After the loop without --csv-output: nothing is written.
NoCsvWriting ==
    /\ LoopDone
    /\ ~args.csv_output
    /\ files' = Append(files, write_csv(csv_rows, args.dry_run))
    /\ pc' = "return"
    /\ UNCHANGED <<args, response, base_url, orphans, idx, csv_rows, deletes, found,
                   stderr, exitCode>>

NoCsv ==
    /\ LoopDone
    /\ ~args.csv_output
    /\ pc' = "return"
    /\ UNCHANGED <<args, response, base_url, orphans, idx, csv_rows, deletes, files,
                   found, stderr, exitCode>>

\* return 0
Return ==
    /\ pc = "return"
    /\ exitCode' = <<0>>
    /\ pc' = "done"
    /\ UNCHANGED <<args, response, base_url, orphans, idx, csv_rows, deletes, files,
                   found, stderr>>

Next ==
    \/ FetchFail
    \/ FetchEmpty
    \/ FetchOk
    \/ EntityCrash
    \/ SkipMissingUid
    \/ DryRunEntity
    \/ DeleteOk
    \/ DeleteFail
    \/ WriteCsv
    \/ NoCsv
    \/ Return

Spec == Init /\ [][Next]_vars

-----------------------------------------------------------------------------
(* build_entity_row on its own: one entity in, one row out *)

Dicts(a, b) == {x @@ y : x \in a, y \in b}

RowAnnotations ==
    {JObj(d) : d \in
        Dicts(Opt("backstage.io/owner", {JStr(""), JStr("team-a")}),
        Dicts(Opt("backstage.io/owned-by", {JStr(""), JStr("team-x")}),
        Dicts(Opt("backstage.io/origin-location", {JStr("url:origin")}),
        Dicts(Opt("backstage.io/managed-by-location", {JStr("url:managed")}),
              Opt("backstage.io/location", {JStr("url:location")})))))}

RowMetadata ==
    {JObj(d) : d \in
        Dicts(Opt("name", {JStr("svc1")}),
        Dicts(Opt("uid", {JStr("u1")}),
        Dicts(Opt("tags", {Null, JList(<<"b", "a">>), JStr("a")}),
              Opt("annotations", {Null} \cup RowAnnotations))))}

RowSpecs == {JObj(d) : d \in Opt("owner", {Null, JStr(""), JStr("team-s")})}

RowEntities ==
    {JObj(d) : d \in
        Dicts(Opt("kind", {JStr("Component")}),
        Dicts(Opt("metadata", {Null} \cup RowMetadata),
              Opt("spec", {Null} \cup RowSpecs)))}

InitRow ==
    /\ args = [base_url |-> <<"http://cat:7007">>, dry_run |-> TRUE, csv_output |-> TRUE]
    /\ \E e \in RowEntities :
          /\ response = [kind |-> "json", data |-> JList(<<e>>)]
          /\ orphans = <<e>>
    /\ pc = "row"
    /\ base_url = <<"http://cat:7007">>
    /\ idx = 1
    /\ csv_rows = <<>>
    /\ deletes = <<>>
    /\ files = <<>>
    /\ found = <<1>>
    /\ stderr = <<>>
    /\ exitCode = <<>>

\* row = build_entity_row(orphan)
BuildRow ==
    /\ pc = "row"
    /\ csv_rows' = Append(csv_rows, build_entity_row(orphans[idx]))
    /\ pc' = "row_done"
    /\ UNCHANGED <<args, response, base_url, orphans, idx, deletes, files, found,
                   stderr, exitCode>>

NextRow == BuildRow

SpecRow == InitRow /\ [][NextRow]_vars

-----------------------------------------------------------------------------
(* Properties *)

\* The run is over: main returned or the interpreter died on an exception.
Ended == pc \in {"done", "crashed"}

\* The listing GET produced a JSON array.
FetchSucceeded == response.kind = "json" /\ response.data.t = "list"

\* The fetched entity carries a usable metadata.uid.
HasUid(orphan) ==
    /\ "metadata" \in DOMAIN orphan.v
    /\ orphan.v["metadata"].t = "obj"
    /\ "uid" \in DOMAIN orphan.v["metadata"].v
    /\ orphan.v["metadata"].v["uid"].t = "str"
    /\ orphan.v["metadata"].v["uid"].v # ""

WithUid == {i \in 1..Len(orphans) : HasUid(orphans[i])}
WithoutUid == {i \in 1..Len(orphans) : ~HasUid(orphans[i])}
FailedDeletes == {i \in 1..Len(deletes) : deletes[i].result # "ok"}
AllVisited == idx = Len(orphans) + 1

\* The DELETE URLs the fetched entities with a uid call for, in fetch order.
RECURSIVE ExpectedUrls(_)
ExpectedUrls(es) ==
    IF es = <<>> THEN <<>>
    ELSE IF HasUid(Head(es))
         THEN <<<<"http://cat:7007", "/api/catalog/entities/by-uid/",
                  Head(es).v["metadata"].v["uid"].v>>>> \o ExpectedUrls(Tail(es))
         ELSE ExpectedUrls(Tail(es))

\* C1: in dry-run mode no DELETE request is issued at any point of the run,
\* whatever was fetched and whether or not --csv-output is given.
C1_DryRunNeverDeletes == args.dry_run => deletes = <<>>

C1_Witness ==
    /\ args.dry_run
    /\ pc = "done"
    /\ Cardinality(WithUid) >= 2
    /\ Len(csv_rows) >= 2

\* C2: when the initial fetch fails (HTTP error, connection failure, invalid
\* JSON, JSON that is not an array) the run ends with exit code 1, issues no
\* DELETE request and writes no CSV report.
C2_FetchFailureIsFatal ==
    ~FetchSucceeded =>
        /\ deletes = <<>>
        /\ files = <<>>
        /\ pc \in {"start", "done"}
        /\ pc = "done" => exitCode = <<1>>

C2_Witness ==
    /\ response.kind = "json"
    /\ response.data.t = "obj"
    /\ args.csv_output
    /\ pc = "done"
    /\ exitCode = <<1>>

\* C3: an entity without metadata.uid is never the subject of a DELETE, never
\* contributes a report row, and processing continues with the next entity.
C3_MissingUidSkipped ==
    [][(InLoop /\ ~HasUid(orphans[idx])) =>
          /\ deletes' = deletes
          /\ csv_rows' = csv_rows
          /\ pc' = "loop"
          /\ idx' = idx + 1]_vars

\* C4: a failed delete is non-fatal: no row for that entity, every later entity
\* is still processed (a DELETE for each one with a uid), exit code 0.
C4_DeleteFailureNonFatal ==
    (Ended /\ FailedDeletes # {}) =>
        /\ exitCode = <<0>>
        /\ AllVisited
        /\ Len(deletes) = Cardinality(WithUid)
        /\ args.csv_output => Len(csv_rows) = Len(deletes) - Cardinality(FailedDeletes)

\* C5: the rows handed to the report writer are one per fetched entity with a
\* uid that was dry-run-captured or deleted successfully: the CSV row count is
\* the number of fetched entities minus the skipped and the failed ones.
C5_ReportRowCount ==
    \A i \in 1..Len(files) :
        /\ Len(files[i].rows) =
              Len(orphans) - Cardinality(WithoutUid) - Cardinality(FailedDeletes)
        /\ args.dry_run => Len(files[i].rows) = Cardinality(WithUid)
        /\ ~args.dry_run => Len(files[i].rows) = Len(deletes) - Cardinality(FailedDeletes)

C5_Witness ==
    /\ ~args.dry_run
    /\ Len(files) = 1
    /\ Len(files[1].rows) = 1
    /\ Cardinality(WithoutUid) = 1
    /\ Cardinality(FailedDeletes) = 1

\* C6: with --csv-output and a successful fetch a CSV report with its header
\* row is written, also when the fetch returned an empty array.
C6_ReportAlwaysWritten ==
    (pc = "done" /\ args.csv_output /\ FetchSucceeded) =>
        /\ Len(files) = 1
        /\ files[1].header = FieldNames

\* C7: after a successful fetch no error escapes the entity loop: every entity
\* is visited and the run ends with exit code 0.
C7_NoErrorEscapesLoop ==
    (Ended /\ FetchSucceeded) =>
        /\ exitCode = <<0>>
        /\ orphans = response.data.v
        /\ orphans # <<>> => AllVisited

\* C8: without dry-run the DELETE requests of a run are the uids of the fetched
\* entities that have one, in fetch order, each exactly once.
C8_DeleteSequence ==
    (Ended /\ FetchSucceeded /\ ~args.dry_run) =>
        [i \in 1..Len(deletes) |-> deletes[i].url] = ExpectedUrls(response.data.v)

\* C9: the report writer runs at most once, only with --csv-output and only
\* after every fetched entity was processed; no DELETE follows the write.
C9_WriterOnceAfterLoop ==
    /\ [](/\ Len(files) <= 1
          /\ files # <<>> => (args.csv_output /\ AllVisited /\ pc \in {"return", "done"}))
    /\ [][files # <<>> => deletes' = deletes]_vars
    /\ [][files' # files => (LoopDone /\ files = <<>>)]_vars

C9_Witness ==
    /\ pc = "done"
    /\ Len(files) = 1
    /\ Len(deletes) >= 2
    /\ FailedDeletes # {}

\* A source of the owner field as the claim reads it: the key is there and
\* holds a string.
Present(dict, key) ==
    /\ dict.t = "obj"
    /\ key \in DOMAIN dict.v
    /\ dict.v[key].t = "str"

\* A source the code accepts: present and not the empty string.
NonEmpty(dict, key) == Present(dict, key) /\ dict.v[key].v # ""

RowSpec == IF "spec" \in DOMAIN orphans[1].v THEN orphans[1].v["spec"] ELSE Null

RowAnn ==
    LET md == IF "metadata" \in DOMAIN orphans[1].v THEN orphans[1].v["metadata"] ELSE Null
    IN  IF md.t = "obj" /\ "annotations" \in DOMAIN md.v THEN md.v["annotations"] ELSE Null

\* C10 as stated: owner is spec.owner if present, else the annotation
\* backstage.io/owner, else backstage.io/owned-by, else "<unknown>".
C10_OwnerFirstPresent ==
    pc = "row_done" =>
        csv_rows[1].owner =
            IF Present(RowSpec, "owner") THEN RowSpec.v["owner"].v
            ELSE IF Present(RowAnn, "backstage.io/owner") THEN RowAnn.v["backstage.io/owner"].v
            ELSE IF Present(RowAnn, "backstage.io/owned-by") THEN RowAnn.v["backstage.io/owned-by"].v
            ELSE "<unknown>"

\* C10 amended: owner is the first of spec.owner, backstage.io/owner and
\* backstage.io/owned-by that is present and not empty, else "<unknown>".
C10_OwnerFirstNonEmpty ==
    pc = "row_done" =>
        csv_rows[1].owner =
            IF NonEmpty(RowSpec, "owner") THEN RowSpec.v["owner"].v
            ELSE IF NonEmpty(RowAnn, "backstage.io/owner") THEN RowAnn.v["backstage.io/owner"].v
            ELSE IF NonEmpty(RowAnn, "backstage.io/owned-by") THEN RowAnn.v["backstage.io/owned-by"].v
            ELSE "<unknown>"

C10_Witness ==
    /\ pc = "row_done"
    /\ ~Present(RowSpec, "owner")
    /\ ~Present(RowAnn, "backstage.io/owner")
    /\ NonEmpty(RowAnn, "backstage.io/owned-by")
    /\ csv_rows[1].owner = "team-x"

====
